---- MODULE Spec2Model ----
(***************************************************************************)
(* A model of the HTTP server of src/app: the request parser and response  *)
(* formatter (utils.py), the file handlers (files.py), the per-connection  *)
(* handler (handlers.py) and the accept loop with its worker pool          *)
(* (server.py).                                                            *)
(*                                                                         *)
(* Text is modelled at character level.  A character is a one-character    *)
(* string; a str is a sequence of characters.  A byte is either an ASCII   *)
(* byte, written as its character, or a non-ASCII byte such as "0xC3";     *)
(* bytes is a sequence of bytes.  The alphabet has two characters outside  *)
(* ASCII, "U+E9" and "U+B2", each of two bytes in UTF-8; the byte 0xFF     *)
(* occurs in no UTF-8 text.                                                *)
(***************************************************************************)
EXTENDS Integers, Sequences, FiniteSets, TLC

(***************************************************************************)
(* Characters and bytes                                                    *)
(***************************************************************************)
CR == "\r"
LF == "\n"
SP == " "
CRLF == <<CR, LF>>

\* the characters of the alphabet outside ASCII, and their UTF-8 encodings
EACUTE == "U+E9"
SUPERSCRIPT_TWO == "U+B2"
UTF8_EACUTE == <<"0xC3", "0xA9">>
UTF8_SUPERSCRIPT_TWO == <<"0xC2", "0xB2">>
WideChars == {EACUTE, SUPERSCRIPT_TWO}
Utf8Of(ch) == IF ch = EACUTE THEN UTF8_EACUTE ELSE UTF8_SUPERSCRIPT_TWO
LeadBytes == {Utf8Of(ch)[1] : ch \in WideChars}
ContinuationBytes == {Utf8Of(ch)[2] : ch \in WideChars}

Max(S) == CHOOSE x \in S : \A y \in S : y <= x
Min(S) == CHOOSE x \in S : \A y \in S : x <= y

\* Python's Optional[str]: None, or a str
None == [some |-> FALSE, v |-> <<>>]
Some(s) == [some |-> TRUE, v |-> s]

(***************************************************************************)
(* bytes.decode("utf-8") and str.encode("utf-8")                           *)
(***************************************************************************)
\* b is the UTF-8 encoding of some text: every non-ASCII byte belongs to the
\* two bytes of a character of the alphabet
ValidUtf8(b) ==
    \A i \in 1..Len(b) :
        /\ b[i] # "0xFF"
        /\ b[i] \in LeadBytes =>
              (i < Len(b) /\ \E ch \in WideChars : <<b[i], b[i + 1]>> = Utf8Of(ch))
        /\ b[i] \in ContinuationBytes =>
              (i > 1 /\ \E ch \in WideChars : <<b[i - 1], b[i]>> = Utf8Of(ch))

NotContinuation(x) == x \notin ContinuationBytes
DecodeLead(x) ==
    IF x \in LeadBytes THEN CHOOSE ch \in WideChars : Utf8Of(ch)[1] = x ELSE x

\* bytes.decode("utf-8"): the text, or UnicodeDecodeError
decode(b) ==
    IF ValidUtf8(b)
    THEN LET kept == SelectSeq(b, NotContinuation)
         IN  [exc |-> "none", v |-> [i \in 1..Len(kept) |-> DecodeLead(kept[i])]]
    ELSE [exc |-> "UnicodeDecodeError", v |-> <<>>]

RECURSIVE encodeWide(_)
encodeWide(s) ==
    IF s = <<>> THEN <<>>
    ELSE (IF Head(s) \in WideChars THEN Utf8Of(Head(s)) ELSE <<Head(s)>>)
         \o encodeWide(Tail(s))

\* str.encode("utf-8")
encode(s) ==
    IF \A i \in 1..Len(s) : s[i] \notin WideChars THEN s ELSE encodeWide(s)

(***************************************************************************)
(* str methods                                                             *)
(***************************************************************************)
Occurs(s, pat, i) == \A k \in 1..Len(pat) : s[i + k - 1] = pat[k]
Positions(s, pat) == {i \in 1..(Len(s) - Len(pat) + 1) : Occurs(s, pat, i)}

\* pat in s
Contains(s, pat) == Positions(s, pat) # {}

\* s.startswith(prefix)
startswith(s, prefix) == Len(prefix) <= Len(s) /\ Occurs(s, prefix, 1)

\* s.split(sep): the pieces between the non-overlapping occurrences of sep,
\* found left to right
RECURSIVE split(_, _)
split(s, sep) ==
    LET P == Positions(s, sep)
    IN  IF P = {} THEN <<s>>
        ELSE LET i == Min(P)
             IN  <<SubSeq(s, 1, i - 1)>> \o split(SubSeq(s, i + Len(sep), Len(s)), sep)

\* s.split(sep, 1)
split1(s, sep) ==
    LET P == Positions(s, sep)
    IN  IF P = {} THEN <<s>>
        ELSE LET i == Min(P)
             IN  <<SubSeq(s, 1, i - 1), SubSeq(s, i + Len(sep), Len(s))>>

Whitespace == {SP, "\t", LF, CR, "\f"}

\* s.strip()
strip(s) ==
    LET keep == {i \in 1..Len(s) : s[i] \notin Whitespace}
    IN  IF keep = {} THEN <<>> ELSE SubSeq(s, Min(keep), Max(keep))

Upper == <<"A", "B", "C", "D", "E", "F", "G", "H", "I", "J", "K", "L", "M",
           "N", "O", "P", "Q", "R", "S", "T", "U", "V", "W", "X", "Y", "Z">>
Lower == <<"a", "b", "c", "d", "e", "f", "g", "h", "i", "j", "k", "l", "m",
           "n", "o", "p", "q", "r", "s", "t", "u", "v", "w", "x", "y", "z">>

lowerChar(ch) ==
    IF \E k \in 1..Len(Upper) : Upper[k] = ch
    THEN Lower[CHOOSE k \in 1..Len(Upper) : Upper[k] = ch]
    ELSE ch

\* s.lower()
lower(s) == [i \in 1..Len(s) |-> lowerChar(s[i])]

\* s.replace(" ", "")
NotSpace(ch) == ch # SP
removeSpaces(s) == SelectSeq(s, NotSpace)

Digits == <<"0", "1", "2", "3", "4", "5", "6", "7", "8", "9">>
\* s.isdigit(): true of the decimal digits and of the superscript two (a
\* character of Unicode category No), for which int() raises ValueError
IsDecimal(ch) == \E k \in 1..Len(Digits) : Digits[k] = ch

isdigit(s) ==
    /\ s # <<>>
    /\ \A i \in 1..Len(s) : IsDecimal(s[i]) \/ s[i] = SUPERSCRIPT_TWO

DigitVal(ch) == (CHOOSE k \in 1..Len(Digits) : Digits[k] = ch) - 1

RECURSIVE decimalValue(_)
decimalValue(s) ==
    IF s = <<>> THEN 0
    ELSE decimalValue(SubSeq(s, 1, Len(s) - 1)) * 10 + DigitVal(s[Len(s)])

\* int(s) for an s with s.isdigit(): the number, or ValueError
int(s) ==
    IF \A i \in 1..Len(s) : IsDecimal(s[i])
    THEN [exc |-> "none", v |-> decimalValue(s)]
    ELSE [exc |-> "ValueError", v |-> 0]

(***************************************************************************)
(* Literals of the source                                                  *)
(***************************************************************************)
S_GET == <<"G", "E", "T">>
S_POST == <<"P", "O", "S", "T">>
S_ROOT == <<"/">>
S_ECHO_PREFIX == <<"/", "e", "c", "h", "o", "/">>
S_USER_AGENT_PATH == <<"/", "u", "s", "e", "r", "-", "a", "g", "e", "n", "t">>
S_FILES_PREFIX == <<"/", "f", "i", "l", "e", "s", "/">>
S_GZIP == <<"g", "z", "i", "p">>
S_UNKNOWN == <<"U", "n", "k", "n", "o", "w", "n">>
H_ACCEPT_ENCODING ==
    <<"a", "c", "c", "e", "p", "t", "-", "e", "n", "c", "o", "d", "i", "n", "g">>
H_USER_AGENT == <<"u", "s", "e", "r", "-", "a", "g", "e", "n", "t">>
H_CONTENT_LENGTH ==
    <<"c", "o", "n", "t", "e", "n", "t", "-", "l", "e", "n", "g", "t", "h">>

\* the response bodies
B_EMPTY == <<>>
B_NOT_FOUND == <<"N", "o", "t", " ", "F", "o", "u", "n", "d">>
B_ONLY_GET_POST ==
    <<"O", "n", "l", "y", " ", "G", "E", "T", " ", "a", "n", "d", " ", "P",
      "O", "S", "T", " ", "s", "u", "p", "p", "o", "r", "t", "e", "d">>
B_SERVER_ERROR == <<"S", "e", "r", "v", "e", "r", " ", "E", "r", "r", "o", "r">>
B_INVALID_FILE_REQUEST ==
    <<"I", "n", "v", "a", "l", "i", "d", " ", "f", "i", "l", "e", " ", "r",
      "e", "q", "u", "e", "s", "t">>
B_ACCESS_DENIED ==
    <<"A", "c", "c", "e", "s", "s", " ", "D", "e", "n", "i", "e", "d">>
B_LENGTH_REQUIRED ==
    <<"C", "o", "n", "t", "e", "n", "t", "-", "L", "e", "n", "g", "t", "h",
      " ", "h", "e", "a", "d", "e", "r", " ", "m", "i", "s", "s", "i", "n",
      "g", " ", "o", "r", " ", "i", "n", "v", "a", "l", "i", "d">>
B_MISSING_BODY ==
    <<"M", "i", "s", "s", "i", "n", "g", " ", "r", "e", "q", "u", "e", "s",
      "t", " ", "b", "o", "d", "y">>
B_FILE_WRITE_ERROR ==
    <<"F", "i", "l", "e", " ", "w", "r", "i", "t", "e", " ", "e", "r", "r",
      "o", "r">>
B_FILE_NOT_FOUND ==
    <<"F", "i", "l", "e", " ", "N", "o", "t", " ", "F", "o", "u", "n", "d">>
B_FILE_NOT_FOUND_ERROR ==
    <<"F", "i", "l", "e", " ", "n", "o", "t", " ", "f", "o", "u", "n", "d",
      " ", "E", "r", "r", "o", "r">>
B_PERMISSION_DENIED ==
    <<"P", "e", "r", "m", "i", "s", "s", "i", "o", "n", " ", "D", "e", "n",
      "i", "e", "d">>
B_OS_ERROR == <<"O", "S", " ", "E", "r", "r", "o", "r">>

Str(s) == [kind |-> "str", v |-> s]
Bytes(b) == [kind |-> "bytes", v |-> b]

(***************************************************************************)
(* utils.py                                                                *)
(***************************************************************************)
\* a dict[str, str]: a function from its keys; {} is the empty function
EmptyDict == <<>>
get(d, k, default) == IF k \in DOMAIN d THEN d[k] ELSE default

\* key.strip().lower() and value.strip() of line.split(":", 1)
HeaderKey(line) == lower(strip(split1(line, <<":">>)[1]))
HeaderValue(line) == strip(split1(line, <<":">>)[2])

\* the dict comprehension over lines[1:]: every line containing ": " gives an
\* item, a later item replacing an earlier one of the same key
HeaderDict(lines) ==
    LET hl == {i \in 2..Len(lines) : Contains(lines[i], <<":", SP>>)}
        keys == {HeaderKey(lines[i]) : i \in hl}
    IN  [k \in keys |-> HeaderValue(lines[Max({i \in hl : HeaderKey(lines[i]) = k})])]

\* a parser that raises for every first line that is not of three tokens
parse_request_strict(request_data) ==
    LET lines == split(request_data, CRLF)
        tokens == split(lines[1], <<SP>>)
    IN  IF Len(tokens) # 3
        THEN [exc |-> "ValueError", method |-> None, path |-> None,
              headers |-> EmptyDict]
        ELSE [exc |-> "none", method |-> Some(tokens[1]), path |-> Some(tokens[2]),
              headers |-> HeaderDict(lines)]

\* parse_request: (method, path, headers), (None, None, {}) for a first line
\* of fewer than three tokens, ValueError from the unpacking of more than three
parse_request(request_data) ==
    LET lines == split(request_data, CRLF)
        tokens == split(lines[1], <<SP>>)
    IN  IF Len(tokens) < 3
        THEN [exc |-> "none", method |-> None, path |-> None, headers |-> EmptyDict]
        ELSE IF Len(tokens) # 3
        THEN [exc |-> "ValueError", method |-> None, path |-> None,
              headers |-> EmptyDict]
        ELSE [exc |-> "none", method |-> Some(tokens[1]), path |-> Some(tokens[2]),
              headers |-> HeaderDict(lines)]

\* gzip.compress and gzip.decompress: the member is framed by a header and a
\* trailer (the deflate coding inside the member is kept as stored bytes)
GZIP_HEADER == <<"0x1F", "0x8B">>
GZIP_TRAILER == <<"crc32+isize">>
gzip_compress(b) == GZIP_HEADER \o b \o GZIP_TRAILER
gzip_decompress(z) == SubSeq(z, Len(GZIP_HEADER) + 1, Len(z) - Len(GZIP_TRAILER))
IsGzipMember(z) ==
    /\ Len(z) >= Len(GZIP_HEADER) + Len(GZIP_TRAILER)
    /\ SubSeq(z, 1, Len(GZIP_HEADER)) = GZIP_HEADER
    /\ SubSeq(z, Len(z) - Len(GZIP_TRAILER) + 1, Len(z)) = GZIP_TRAILER

\* a default that has gzip in it
GzipEncodings == {S_GZIP}

\* the default of format_response's supported_encodings: None, read as set()
NoEncodings == {}
TEXT_PLAIN == "text/plain"
OCTET_STREAM == "application/octet-stream"

\* a format_response that takes Content-Length before it compresses
format_response_early(status_code, body, content_type, supported_encodings) ==
    LET raw == IF body.kind = "str" THEN encode(body.v) ELSE body.v
        gz == S_GZIP \in supported_encodings
    IN  [status_code |-> status_code,
         content_type |-> content_type,
         content_encoding |-> IF gz THEN "gzip" ELSE "",
         content_length |-> Len(raw),
         body |-> IF gz THEN gzip_compress(raw) ELSE raw]

\* format_response: the response's header fields and body; content_encoding is
\* "" when no Content-Encoding line is emitted
format_response(status_code, body, content_type, supported_encodings) ==
    LET raw == IF body.kind = "str" THEN encode(body.v) ELSE body.v
        gz == S_GZIP \in supported_encodings
        response_body == IF gz THEN gzip_compress(raw) ELSE raw
    IN  [status_code |-> status_code,
         content_type |-> content_type,
         content_encoding |-> IF gz THEN "gzip" ELSE "",
         content_length |-> Len(response_body),
         body |-> response_body]

(***************************************************************************)
(* os.path and the filesystem                                              *)
(*                                                                         *)
(* A path is a str.  The filesystem maps each existing absolute path to    *)
(* its node: a directory, a regular file with its bytes, or a symbolic     *)
(* link with the path it points to.                                        *)
(***************************************************************************)
SLASH == <<"/">>
\* a path taken as it is joined, ".." components and all
abspath_raw(p) == p

DOT == <<".">>
DOTDOT == <<".", ".">>

Dir == [kind |-> "dir", data |-> <<>>]
File(b) == [kind |-> "file", data |-> b]
Link(target) == [kind |-> "link", data |-> target]

\* os.path.join(a, p)
path_join(a, p) ==
    IF startswith(p, SLASH) THEN p
    ELSE IF a = <<>> \/ a[Len(a)] = "/" THEN a \o p
    ELSE a \o SLASH \o p

\* the component stack of posixpath.normpath for an absolute path: empty and
\* "." components are dropped, ".." pops a component and is dropped at the root
RECURSIVE normComps(_, _)
normComps(comps, acc) ==
    IF comps = <<>> THEN acc
    ELSE LET c == Head(comps)
         IN  IF c = <<>> \/ c = DOT THEN normComps(Tail(comps), acc)
             ELSE IF c = DOTDOT
             THEN normComps(Tail(comps),
                            IF acc = <<>> THEN acc ELSE SubSeq(acc, 1, Len(acc) - 1))
             ELSE normComps(Tail(comps), Append(acc, c))

RECURSIVE joinComps(_)
joinComps(comps) ==
    IF comps = <<>> THEN <<>>
    ELSE IF Len(comps) = 1 THEN Head(comps)
    ELSE Head(comps) \o SLASH \o joinComps(Tail(comps))

\* os.path.abspath(p) of an absolute p: "/" + "/".join(comps)
abspath(p) == SLASH \o joinComps(normComps(split(p, SLASH), <<>>))

\* the location that the system calls on p act on: a symbolic link is followed
RECURSIVE follow(_, _)
follow(fs, p) ==
    IF p \in DOMAIN fs /\ fs[p].kind = "link" THEN follow(fs, fs[p].data) ELSE p

\* os.path.isfile(p)
isfile(fs, p) == follow(fs, p) \in DOMAIN fs /\ fs[follow(fs, p)].kind = "file"

\* os.path.isdir(p)
isdir(fs, p) == follow(fs, p) \in DOMAIN fs /\ fs[follow(fs, p)].kind = "dir"

\* the bytes that open(p, "rb") and f.read() give
ReadFile(fs, p) == fs[follow(fs, p)].data

\* the filesystem after open(p, "w") and a write of b
WriteFile(fs, p, b) ==
    [q \in DOMAIN fs \cup {follow(fs, p)} |-> IF q = follow(fs, p) THEN File(b) ELSE fs[q]]

(***************************************************************************)
(* files.py                                                                *)
(***************************************************************************)
\* re.match(r"^/files/([^/]+)$", path): the group, or None.  [^/] matches a
\* line feed too, so the group is all that follows "/files/"
match_files(path) ==
    LET rest == SubSeq(path, Len(S_FILES_PREFIX) + 1, Len(path))
    IN  IF startswith(path, S_FILES_PREFIX) /\ rest # <<>> /\ ~Contains(rest, SLASH)
        THEN Some(rest)
        ELSE None

\* what the environment makes open(.., "w") and f.write do
WriteFaults == {"none", "open", "write"}
\* what the environment makes open(.., "rb") and f.read() raise
ReadFaults == {"none", "FileNotFoundError", "PermissionError", "OSError", "MemoryError"}

\* handle_file_upload with the target opened for writing before the
\* Content-Length and the body are looked at
handle_file_upload_open_first(request_data, path, base_directory, headers, fs, fault) ==
    LET match == match_files(path)
        filename == match.v
        file_path == abspath(path_join(base_directory, filename))
        content_length == headers[H_CONTENT_LENGTH]
        length == int(content_length)
        request_parts == split1(request_data, CRLF \o CRLF)
        request_body ==
            SubSeq(request_parts[2], 1, Min({length.v, Len(request_parts[2])}))
        truncated == WriteFile(fs, file_path, <<>>)
        Returns(r, f) == [exc |-> "none", response |-> r, fs |-> f, opened |-> None]
        Opens(r, f) == [exc |-> "none", response |-> r, fs |-> f, opened |-> Some(file_path)]
        Plain(status, body) == format_response(status, Str(body), TEXT_PLAIN, NoEncodings)
    IN  IF ~match.some
        THEN Returns(Plain("400 Bad Request", B_INVALID_FILE_REQUEST), fs)
        ELSE IF ~startswith(file_path, abspath(base_directory))
        THEN Returns(Plain("403 Forbidden", B_ACCESS_DENIED), fs)
        ELSE IF isdir(fs, file_path) \/ fault = "open"
        THEN Returns(Plain("500 Internal Server Error", B_FILE_WRITE_ERROR), fs)
        ELSE IF H_CONTENT_LENGTH \notin DOMAIN headers \/ ~isdigit(content_length)
        THEN Opens(Plain("411 Length Required", B_LENGTH_REQUIRED), truncated)
        ELSE IF length.exc # "none"
        THEN [exc |-> length.exc, response |-> None, fs |-> truncated,
              opened |-> Some(file_path)]
        ELSE IF Len(request_parts) < 2
        THEN Opens(Plain("400 Bad Request", B_MISSING_BODY), truncated)
        ELSE IF fault = "write"
        THEN Opens(Plain("500 Internal Server Error", B_FILE_WRITE_ERROR), truncated)
        ELSE Opens(Plain("201 Created", B_EMPTY),
                   WriteFile(fs, file_path, encode(request_body)))

\* handle_file_upload: the response and the filesystem it leaves, or the
\* exception that escapes it, and the path that open() has opened, if any
handle_file_upload(request_data, path, base_directory, headers, fs, fault) ==
    LET match == match_files(path)
        filename == match.v
        file_path == abspath(path_join(base_directory, filename))
        content_length == headers[H_CONTENT_LENGTH]
        length == int(content_length)
        request_parts == split1(request_data, CRLF \o CRLF)
        request_body ==
            SubSeq(request_parts[2], 1, Min({length.v, Len(request_parts[2])}))
        Returns(r, f) == [exc |-> "none", response |-> r, fs |-> f, opened |-> None]
        Opens(r, f) == [exc |-> "none", response |-> r, fs |-> f, opened |-> Some(file_path)]
        Plain(status, body) == format_response(status, Str(body), TEXT_PLAIN, NoEncodings)
    IN  IF ~match.some
        THEN Returns(Plain("400 Bad Request", B_INVALID_FILE_REQUEST), fs)
        ELSE IF ~startswith(file_path, abspath(base_directory))
        THEN Returns(Plain("403 Forbidden", B_ACCESS_DENIED), fs)
        ELSE IF H_CONTENT_LENGTH \notin DOMAIN headers \/ ~isdigit(content_length)
        THEN Returns(Plain("411 Length Required", B_LENGTH_REQUIRED), fs)
        ELSE IF length.exc # "none"
        THEN [exc |-> length.exc, response |-> None, fs |-> fs, opened |-> None]
        ELSE IF Len(request_parts) < 2
        THEN Returns(Plain("400 Bad Request", B_MISSING_BODY), fs)
        ELSE IF isdir(fs, file_path) \/ fault = "open"
        THEN Returns(Plain("500 Internal Server Error", B_FILE_WRITE_ERROR), fs)
        ELSE IF fault = "write"
        THEN Opens(Plain("500 Internal Server Error", B_FILE_WRITE_ERROR),
                   WriteFile(fs, file_path, <<>>))
        ELSE Opens(Plain("201 Created", B_EMPTY),
                   WriteFile(fs, file_path, encode(request_body)))

\* handle_file_request: the response, and the path that open() has opened,
\* if any
handle_file_request(path, base_directory, supported_encodings, fs, fault) ==
    LET match == match_files(path)
        filename == match.v
        file_path == abspath(path_join(base_directory, filename))
        Text(status, body) ==
            [response |-> format_response(status, Str(body), TEXT_PLAIN, supported_encodings),
             opened |-> None]
        Opens(r) == [response |-> r, opened |-> Some(file_path)]
    IN  IF ~match.some
        THEN Text("400 Bad Request", B_INVALID_FILE_REQUEST)
        ELSE IF ~startswith(file_path, abspath(base_directory))
        THEN Text("403 Forbidden", B_ACCESS_DENIED)
        ELSE IF ~isfile(fs, file_path)
        THEN Text("404 Not Found", B_FILE_NOT_FOUND)
        ELSE IF fault = "FileNotFoundError"
        THEN Text("404 Not Found", B_FILE_NOT_FOUND_ERROR)
        ELSE IF fault = "PermissionError"
        THEN Text("403 Forbidden", B_PERMISSION_DENIED)
        ELSE IF fault = "OSError"
        THEN Opens(Text("500 Internal Server Error", B_OS_ERROR).response)
        ELSE IF fault = "MemoryError"
        THEN Opens(Text("500 Internal Server Error", B_SERVER_ERROR).response)
        ELSE Opens(format_response("200 OK", Bytes(ReadFile(fs, file_path)), OCTET_STREAM,
                                   supported_encodings))

(***************************************************************************)
(* handlers.py: the routing of handle_request                              *)
(***************************************************************************)
\* the pattern "^/echo/(.*)$" in place of "^/echo/(.+)$": an empty text matches
match_echo_any(path) ==
    LET rest == SubSeq(path, Len(S_ECHO_PREFIX) + 1, Len(path))
    IN  IF startswith(path, S_ECHO_PREFIX) /\ ~Contains(rest, <<LF>>)
        THEN Some(rest)
        ELSE None

\* re.match(r"^/echo/(.+)$", path): the group, or None.  "." matches no line
\* feed, and "$" matches at the end and before a line feed that ends the path
match_echo(path) ==
    LET rest == SubSeq(path, Len(S_ECHO_PREFIX) + 1, Len(path))
        feeds == Positions(rest, <<LF>>)
    IN  IF ~startswith(path, S_ECHO_PREFIX) \/ rest = <<>> THEN None
        ELSE IF feeds = {} THEN Some(rest)
        ELSE IF feeds = {Len(rest)} /\ Len(rest) > 1
        THEN Some(SubSeq(rest, 1, Len(rest) - 1))
        ELSE None

Range(f) == {f[i] : i \in DOMAIN f}

\* set(accept_encoding.replace(" ", "").split(","))
SupportedEncodings(headers) ==
    Range(split(removeSpaces(lower(get(headers, H_ACCEPT_ENCODING, <<>>))), <<",">>))

\* lines 15-53 of handle_request: from the decoded request to the response
\* that is handed to sendall, with the filesystem the file handlers leave, or
\* the exception raised on the way
dispatch(request_data, base_directory, fs, rfault, wfault) ==
    LET parsed == parse_request(request_data)
        method == parsed.method
        path == parsed.path
        headers == parsed.headers
        supported_encodings == SupportedEncodings(headers)
        match == match_echo(IF path.some THEN path.v ELSE <<>>)
        Returns(r) == [exc |-> "none", response |-> r, fs |-> fs, opened |-> None]
        Text(status, body) ==
            format_response(status, Str(body), TEXT_PLAIN, supported_encodings)
        read == handle_file_request(IF path.some THEN path.v ELSE <<>>, base_directory,
                                    supported_encodings, fs, rfault)
    IN  IF parsed.exc # "none"
        THEN [exc |-> parsed.exc, response |-> None, fs |-> fs, opened |-> None]
        ELSE IF method = Some(S_GET)
        THEN IF path = Some(S_ROOT)
             THEN Returns(Text("200 OK", B_EMPTY))
             ELSE IF match.some
             THEN Returns(Text("200 OK", match.v))
             ELSE IF path = Some(S_USER_AGENT_PATH)
             THEN Returns(Text("200 OK", get(headers, H_USER_AGENT, S_UNKNOWN)))
             ELSE IF path.some /\ path.v # <<>> /\ startswith(path.v, S_FILES_PREFIX)
             THEN [Returns(read.response) EXCEPT !.opened = read.opened]
             ELSE Returns(Text("404 Not Found", B_NOT_FOUND))
        ELSE IF /\ method = Some(S_POST)
                /\ path.some /\ path.v # <<>>
                /\ startswith(path.v, S_FILES_PREFIX)
        THEN handle_file_upload(request_data, path.v, base_directory, headers, fs,
                                wfault)
        ELSE Returns(format_response("405 Method Not Allowed", Str(B_ONLY_GET_POST),
                                     TEXT_PLAIN, NoEncodings))

(***************************************************************************)
(* The server's state                                                      *)
(***************************************************************************)
VARIABLES
    base_directory,  \* the directory served, fixed at startup
    fs,              \* the filesystem
    conn,            \* the connections: what the client does, and how far
                     \* handle_request has come with each
    backlog,         \* the connections the listening socket holds, unaccepted
    work_queue,      \* the executor's queue of submitted handle_request calls
    worker,          \* per worker thread: the connection it handles, or 0
    server           \* the accept loop: "accepting", "draining", "exited"

vars == <<base_directory, fs, conn, backlog, work_queue, worker, server>>

\* ThreadPoolExecutor(max_workers=10)
max_workers == 10
\* a pool of one thread fewer
FewerWorkers == 1..(max_workers - 1)
Workers == 1..max_workers

\* client_socket.recv(4096)
RECV_BUFSIZE == 4096

\* what a client sends: the lines of the head and, after a blank line, the body
Wire(req) ==
    LET RECURSIVE joinLines(_)
        joinLines(ls) ==
            IF Len(ls) = 1 THEN encode(Head(ls))
            ELSE encode(Head(ls)) \o CRLF \o joinLines(Tail(ls))
    IN  joinLines(req.head) \o (IF req.body.some THEN CRLF \o CRLF \o req.body.v ELSE <<>>)

\* the behaviours of a client: it sends a request, closes without sending,
\* resets the connection, or stalls (sends nothing and keeps the connection).
\* What a client does is unknown to the server until recv returns
Request(req) == [kind |-> "request", req |-> req]
Eof == [kind |-> "eof", req |-> [head |-> <<>>, body |-> None]]
Reset == [kind |-> "reset", req |-> [head |-> <<>>, body |-> None]]
Stall == [kind |-> "stall", req |-> [head |-> <<>>, body |-> None]]
Unknown == [kind |-> "unknown", req |-> [head |-> <<>>, body |-> None]]

NoResponse == [status_code |-> "", content_type |-> "", content_encoding |-> "",
               content_length |-> 0, body |-> <<>>]

Absent ==
    [pc |-> "absent", client |-> Unknown, request_data |-> <<>>, response |-> NoResponse,
     exc |-> "none", escaped |-> "none", out |-> <<>>, closed |-> FALSE,
     by |-> 0, runs |-> 0, opened |-> None]

NewConn == [Absent EXCEPT !.pc = "pending"]

\* the outcomes of sendall: every byte was written, or an OSError was raised
\* after part of them, or after none
SendOutcomes == {"all", "part", "none"}

(***************************************************************************)
(* server.py: the accept loop and the worker pool                          *)
(***************************************************************************)
\* server_socket.accept() and executor.submit(handle_request, ...)
Accept ==
    /\ server = "accepting"
    /\ backlog # <<>>
    /\ conn' = [conn EXCEPT ![Head(backlog)].pc = "queued"]
    /\ backlog' = Tail(backlog)
    /\ work_queue' = Append(work_queue, Head(backlog))
    /\ UNCHANGED <<base_directory, fs, worker, server>>

\* a pool whose threads start a submitted call whether or not they run one
WorkerTakeBusy(w) ==
    /\ \A v \in Workers : v < w => worker[v] # 0
    /\ work_queue # <<>>
    /\ LET c == Head(work_queue)
       IN  /\ worker' = [worker EXCEPT ![w] = c]
           /\ conn' = [conn EXCEPT ![c].pc = "recv", ![c].by = w,
                                   ![c].runs = conn[c].runs + 1]
    /\ work_queue' = Tail(work_queue)
    /\ UNCHANGED <<base_directory, fs, backlog, server>>

\* a free worker thread takes the oldest submitted call and starts it.  The
\* threads are interchangeable: the free one of the lowest number takes it
WorkerTake(w) ==
    /\ worker[w] = 0
    /\ \A v \in Workers : v < w => worker[v] # 0
    /\ work_queue # <<>>
    /\ LET c == Head(work_queue)
       IN  /\ worker' = [worker EXCEPT ![w] = c]
           /\ conn' = [conn EXCEPT ![c].pc = "recv", ![c].by = w,
                                   ![c].runs = conn[c].runs + 1]
    /\ work_queue' = Tail(work_queue)
    /\ UNCHANGED <<base_directory, fs, backlog, server>>

(***************************************************************************)
(* handlers.py: handle_request, step by step.  Each step is a function of  *)
(* the connection's record, and an action of the worker that runs it.      *)
(***************************************************************************)
\* a handle_request without the test of line 12: the empty text is parsed
AfterRecvUnchecked(cn, client) ==
    LET text == IF client.kind = "request" THEN decode(Wire(client.req))
                ELSE [exc |-> "none", v |-> <<>>]
        c == [cn EXCEPT !.client = client]
    IN  IF client.kind = "reset"
        THEN [c EXCEPT !.pc = "except", !.exc = "ConnectionResetError"]
        ELSE IF text.exc # "none"
        THEN [c EXCEPT !.pc = "except", !.exc = text.exc]
        ELSE [c EXCEPT !.pc = "dispatch", !.request_data = text.v]

\* line 11: recv(4096).decode("utf-8"), and the empty read of line 12, for
\* what the client has done by the time recv returns
AfterRecv(cn, client) ==
    LET wire == Wire(client.req)
        data == SubSeq(wire, 1, Min({RECV_BUFSIZE, Len(wire)}))
        text == decode(data)
        c == [cn EXCEPT !.client = client]
    IN  IF client.kind = "reset"
        THEN [c EXCEPT !.pc = "except", !.exc = "ConnectionResetError"]
        ELSE IF client.kind = "eof"
        THEN [c EXCEPT !.pc = "finally"]
        ELSE IF text.exc # "none"
        THEN [c EXCEPT !.pc = "except", !.exc = text.exc]
        ELSE IF text.v = <<>>
        THEN [c EXCEPT !.pc = "finally"]
        ELSE [c EXCEPT !.pc = "dispatch", !.request_data = text.v]

\* lines 15-53: parse and route
AfterDispatch(cn, base, files, rfault, wfault) ==
    LET r == dispatch(cn.request_data, base, files, rfault, wfault)
    IN  [conn |-> IF r.exc # "none"
                  THEN [cn EXCEPT !.pc = "except", !.exc = r.exc]
                  ELSE [cn EXCEPT !.pc = "send", !.response = r.response,
                                  !.opened = r.opened],
         fs |-> r.fs]

\* line 55: sendall(response)
AfterSend(cn, sent) ==
    [cn EXCEPT !.out = Append(@, [response |-> cn.response, sent |-> sent, line |-> 55]),
               !.pc = IF sent = "all" THEN "finally" ELSE "except",
               !.exc = IF sent = "all" THEN "none" ELSE "OSError"]

\* handle_request without its except clause: the exception leaves the call and
\* nothing is handed to sendall
AfterUncaught(cn, sent) ==
    [cn EXCEPT !.pc = "finally", !.exc = "none", !.escaped = cn.exc]

\* lines 56-59: the handler of every Exception formats the fixed response and
\* hands it to sendall; an OSError of that sendall leaves handle_request
AfterExcept(cn, sent) ==
    LET response == format_response("500 Internal Server Error", Str(B_SERVER_ERROR),
                                    TEXT_PLAIN, NoEncodings)
    IN  [cn EXCEPT !.response = response,
                   !.out = Append(@, [response |-> response, sent |-> sent, line |-> 59]),
                   !.pc = "finally",
                   !.exc = "none",
                   !.escaped = IF sent = "all" THEN "none" ELSE "OSError"]

\* handle_request without its finally clause: the call ends, the socket open
AfterReturn(cn) == [cn EXCEPT !.pc = "done"]

\* lines 60-61: close(), and the call ends
AfterFinally(cn) == [cn EXCEPT !.pc = "done", !.closed = TRUE]

\* the worker is in handle_request at pc
At(w, pc) == worker[w] # 0 /\ conn[worker[w]].pc = pc

\* recv returns with what one of the clients has done; the call blocks while
\* the client stalls
RecvFrom(w, clients) ==
    /\ At(w, "recv")
    /\ conn[worker[w]].client.kind # "stall"
    /\ \E client \in clients : conn' = [conn EXCEPT ![worker[w]] = AfterRecv(@, client)]
    /\ UNCHANGED <<base_directory, fs, backlog, work_queue, worker, server>>

\* the client of a connection whose handler waits in recv stalls
ClientStall ==
    /\ \E c \in DOMAIN conn :
          /\ conn[c].pc = "recv"
          /\ conn[c].client.kind = "unknown"
          /\ conn' = [conn EXCEPT ![c].client = Stall]
    /\ UNCHANGED <<base_directory, fs, backlog, work_queue, worker, server>>

\* the filesystem calls of the file handlers fail in one of the ways given
DispatchUnder(w, rfaults, wfaults) ==
    /\ At(w, "dispatch")
    /\ \E rfault \in rfaults, wfault \in wfaults :
          LET r == AfterDispatch(conn[worker[w]], base_directory, fs, rfault, wfault)
          IN  /\ conn' = [conn EXCEPT ![worker[w]] = r.conn]
              /\ fs' = r.fs
    /\ UNCHANGED <<base_directory, backlog, work_queue, worker, server>>

Dispatch(w) == DispatchUnder(w, ReadFaults, WriteFaults)

Send(w) ==
    /\ At(w, "send")
    /\ \E sent \in SendOutcomes : conn' = [conn EXCEPT ![worker[w]] = AfterSend(@, sent)]
    /\ UNCHANGED <<base_directory, fs, backlog, work_queue, worker, server>>

Except(w) ==
    /\ At(w, "except")
    /\ \E sent \in SendOutcomes : conn' = [conn EXCEPT ![worker[w]] = AfterExcept(@, sent)]
    /\ UNCHANGED <<base_directory, fs, backlog, work_queue, worker, server>>

\* the worker thread is free again (an escaped exception is kept in the call's
\* future, which nobody reads)
Finally(w) ==
    /\ At(w, "finally")
    /\ conn' = [conn EXCEPT ![worker[w]] = AfterFinally(@)]
    /\ worker' = [worker EXCEPT ![w] = 0]
    /\ UNCHANGED <<base_directory, fs, backlog, work_queue, server>>

(***************************************************************************)
(* The requests the clients send                                           *)
(***************************************************************************)
HTTP11 == <<"H", "T", "T", "P", "/", "1", ".", "1">>
M_PUT == <<"P", "U", "T">>
M_GET_LOWER == <<"g", "e", "t">>
P_ECHO_AB == <<"/", "e", "c", "h", "o", "/", "a", "b">>
P_ECHO_EMPTY == <<"/", "e", "c", "h", "o", "/">>
P_ECHO_FEED == <<"/", "e", "c", "h", "o", "/", "a", LF>>
P_ECHO_ONLY_FEED == <<"/", "e", "c", "h", "o", "/", LF>>
P_ECHO_TWO_LINES == <<"/", "e", "c", "h", "o", "/", "a", LF, "b">>
P_ECHO_BARE == <<"/", "e", "c", "h", "o">>
P_ECHO_EACUTE == <<"/", "e", "c", "h", "o", "/", EACUTE>>
P_FILES_A == <<"/", "f", "i", "l", "e", "s", "/", "a">>
P_FILES_UP == <<"/", "f", "i", "l", "e", "s", "/", ".", ".">>
P_FILES_DOT == <<"/", "f", "i", "l", "e", "s", "/", ".">>
P_FILES_UP_X == <<"/", "f", "i", "l", "e", "s", "/", ".", ".", "/", "x">>
P_FILES_A_B == <<"/", "f", "i", "l", "e", "s", "/", "a", "/", "b">>
P_FILES_EMPTY == <<"/", "f", "i", "l", "e", "s", "/">>
P_FILES_TMP == <<"/", "f", "i", "l", "e", "s", "/", "t", "m", "p">>
P_OTHER == <<"/", "x">>
P_EMPTY == <<>>
L_AE_GZIP ==
    <<"A", "c", "c", "e", "p", "t", "-", "E", "n", "c", "o", "d", "i", "n", "g", ":", " ", "g", "z", "i", "p">>
L_AE_LIST ==
    <<"A", "c", "c", "e", "p", "t", "-", "E", "n", "c", "o", "d", "i", "n", "g", ":", " ", "b", "r", ",", " ", "G", "Z", "i", "p">>
L_AE_QVALUE ==
    <<"A", "c", "c", "e", "p", "t", "-", "E", "n", "c", "o", "d", "i", "n", "g", ":", " ", "g", "z", "i", "p", ";", "q", "=", "1", ".", "0">>
L_AE_DEFLATE ==
    <<"A", "c", "c", "e", "p", "t", "-", "E", "n", "c", "o", "d", "i", "n", "g", ":", " ", "d", "e", "f", "l", "a", "t", "e">>
L_UA ==
    <<"U", "s", "e", "r", "-", "A", "g", "e", "n", "t", ":", " ", "t", "c", "/", "1">>
L_CL_0 ==
    <<"C", "o", "n", "t", "e", "n", "t", "-", "L", "e", "n", "g", "t", "h", ":", " ", "0">>
L_CL_1 ==
    <<"C", "o", "n", "t", "e", "n", "t", "-", "L", "e", "n", "g", "t", "h", ":", " ", "1">>
L_CL_2 ==
    <<"C", "o", "n", "t", "e", "n", "t", "-", "L", "e", "n", "g", "t", "h", ":", " ", "2">>
L_CL_5 ==
    <<"C", "o", "n", "t", "e", "n", "t", "-", "L", "e", "n", "g", "t", "h", ":", " ", "5">>
L_CL_NEGATIVE ==
    <<"C", "o", "n", "t", "e", "n", "t", "-", "L", "e", "n", "g", "t", "h", ":", " ", "-", "1">>
L_CL_WORD ==
    <<"C", "o", "n", "t", "e", "n", "t", "-", "L", "e", "n", "g", "t", "h", ":", " ", "x">>
L_CL_SUPERSCRIPT ==
    <<"C", "o", "n", "t", "e", "n", "t", "-", "L", "e", "n", "g", "t", "h", ":", " ", SUPERSCRIPT_TWO>>
L_CL_BIG ==
    <<"C", "o", "n", "t", "e", "n", "t", "-", "L", "e", "n", "g", "t", "h", ":", " ", "4", "1", "0", "0">>
D_TMP == <<"/", "t", "m", "p">>
T_HI == <<"h", "i">>

B_EACUTE == UTF8_EACUTE
B_NOT_UTF8 == <<"0xFF">>
BigLen == 4100
B_BIG == [i \in 1..BigLen |-> "a"]

RequestLine(method, path) == method \o <<SP>> \o path \o <<SP>> \o HTTP11
Req(head, body) == [head |-> head, body |-> body]

GetPaths ==
    {S_ROOT, P_ECHO_AB, P_ECHO_EMPTY, P_ECHO_FEED, P_ECHO_ONLY_FEED, P_ECHO_TWO_LINES, P_ECHO_BARE,
     P_ECHO_EACUTE, S_USER_AGENT_PATH, P_FILES_A, P_FILES_UP, P_FILES_DOT,
     P_FILES_UP_X, P_FILES_A_B, P_FILES_EMPTY, P_FILES_TMP, P_OTHER, P_EMPTY}
AcceptEncodings == {<<>>, <<L_AE_GZIP>>, <<L_AE_LIST>>, <<L_AE_QVALUE>>, <<L_AE_DEFLATE>>}

GetRequests ==
    {Req(<<RequestLine(S_GET, p)>> \o ae, Some(<<>>)) : p \in GetPaths, ae \in AcceptEncodings}
    \cup {Req(<<RequestLine(S_GET, S_USER_AGENT_PATH), L_UA>> \o ae, Some(<<>>)) :
            ae \in {<<>>, <<L_AE_GZIP>>}}
    \cup {Req(<<RequestLine(S_GET, P_ECHO_AB)>> \o ae, Some(L_AE_GZIP)) :
            ae \in {<<>>, <<L_AE_DEFLATE>>}}
    \cup {Req(<<RequestLine(S_GET, P_ECHO_AB), L_AE_GZIP>>, Some(L_AE_DEFLATE))}

PostPaths ==
    {P_FILES_A, P_FILES_UP, P_FILES_DOT, P_FILES_UP_X, P_FILES_A_B, P_FILES_EMPTY,
     P_OTHER}

PostRequests ==
    {Req(<<RequestLine(S_POST, p), L_CL_2>> \o ae, Some(T_HI)) :
        p \in PostPaths, ae \in {<<>>, <<L_AE_GZIP>>}}
    \cup {Req(<<RequestLine(S_POST, P_FILES_A)>> \o cl, Some(T_HI)) :
            cl \in {<<>>, <<L_CL_0>>, <<L_CL_1>>, <<L_CL_5>>, <<L_CL_NEGATIVE>>,
                    <<L_CL_WORD>>, <<L_CL_SUPERSCRIPT>>}}
    \cup {Req(<<RequestLine(S_POST, P_FILES_A), L_CL_0>>, Some(<<>>)),
          Req(<<RequestLine(S_POST, P_FILES_A), L_CL_2>>, Some(B_EACUTE)),
          Req(<<RequestLine(S_POST, P_FILES_A), L_CL_1>>, Some(B_NOT_UTF8)),
          Req(<<RequestLine(S_POST, P_FILES_A), L_CL_2>>, None),
          Req(<<RequestLine(S_POST, P_FILES_A), L_CL_BIG>>, Some(B_BIG)),
          Req(<<RequestLine(S_POST, P_FILES_A), L_CL_1>>, Some(B_EACUTE)),
          Req(<<RequestLine(S_POST, P_FILES_A), L_CL_1, L_CL_2>>, Some(T_HI)),
          Req(<<RequestLine(S_POST, P_FILES_A), L_CL_2>>, Some(T_HI \o CRLF \o L_CL_1)),
          Req(<<RequestLine(S_POST, P_FILES_A)>>, Some(T_HI \o CRLF \o L_CL_1))}

OtherMethodRequests ==
    {Req(<<RequestLine(m, p)>> \o ae, Some(<<>>)) :
        m \in {M_PUT, M_GET_LOWER}, p \in {S_ROOT, P_FILES_A}, ae \in {<<>>, <<L_AE_GZIP>>}}

\* first lines of fewer and of more than three tokens
ShortLines == {S_GET \o <<SP>> \o S_ROOT, S_GET, <<>>, S_POST \o <<SP>> \o P_FILES_A}
LongLines ==
    {S_GET \o <<SP>> \o P_ECHO_AB \o <<SP>> \o P_OTHER \o <<SP>> \o HTTP11,
     S_GET \o <<SP, SP>> \o S_ROOT \o <<SP>> \o HTTP11}

MalformedRequests ==
    {Req(<<l>> \o ae, Some(<<>>)) : l \in ShortLines \cup LongLines, ae \in {<<>>, <<L_AE_GZIP>>}}
    \cup {Req(<<S_GET \o <<SP>> \o S_ROOT>>, None)}

Requests == GetRequests \cup PostRequests \cup OtherMethodRequests \cup MalformedRequests

\* the clients of the sequential specification
SeqClients == {Request(r) : r \in Requests} \cup {Eof, Reset}

SeqRecv(w) == RecvFrom(w, SeqClients)

BaseDirs == {D_TMP, SLASH}

\* the filesystem at startup: the root and the directory /tmp
InitialFs == [p \in {SLASH, D_TMP} |-> Dir]

(***************************************************************************)
(* SeqSpec: one client at a time.  A client connects when the connection   *)
(* of the one before is closed, and the server handles it step by step.    *)
(***************************************************************************)
SeqInit ==
    /\ base_directory \in BaseDirs
    /\ fs = InitialFs
    /\ conn = [c \in {1} |-> Absent]
    /\ backlog = <<>>
    /\ work_queue = <<>>
    /\ worker = [w \in Workers |-> 0]
    /\ server = "accepting"

NextClient ==
    /\ conn[1].pc \in {"absent", "done"}
    /\ conn' = [conn EXCEPT ![1] = NewConn]
    /\ backlog' = Append(backlog, 1)
    /\ UNCHANGED <<base_directory, fs, work_queue, worker, server>>

SeqNext ==
    \/ NextClient
    \/ Accept
    \/ \E w \in Workers : WorkerTake(w)
    \/ \E w \in Workers : SeqRecv(w)
    \/ \E w \in Workers : Dispatch(w)
    \/ \E w \in Workers : Send(w)
    \/ \E w \in Workers : Except(w)
    \/ \E w \in Workers : Finally(w)

SeqSpec == SeqInit /\ [][SeqNext]_vars

(***************************************************************************)
(* Spec: NumConns clients connect, in any order of time, and the workers   *)
(* handle their connections concurrently.                                  *)
(***************************************************************************)
NumConns == 2

GetEchoGzip == Req(<<RequestLine(S_GET, P_ECHO_AB), L_AE_GZIP>>, Some(<<>>))
PostNotUtf8 == Req(<<RequestLine(S_POST, P_FILES_A), L_CL_1>>, Some(B_NOT_UTF8))
PostSuperscript == Req(<<RequestLine(S_POST, P_FILES_A), L_CL_SUPERSCRIPT>>, Some(T_HI))
GetLongLine ==
    Req(<<S_GET \o <<SP>> \o P_ECHO_AB \o <<SP>> \o P_OTHER \o <<SP>> \o HTTP11>>, Some(<<>>))

Clients ==
    {Request(r) : r \in {GetEchoGzip, PostNotUtf8, PostSuperscript, GetLongLine}}
    \cup {Eof, Reset}

Recv(w) == RecvFrom(w, Clients)

\* the filesystem calls succeed while the connections are handled concurrently
Route(w) == DispatchUnder(w, {"none"}, {"none"})

Init ==
    /\ base_directory = D_TMP
    /\ fs = InitialFs
    /\ conn = [c \in 1..NumConns |-> Absent]
    /\ backlog = <<>>
    /\ work_queue = <<>>
    /\ worker = [w \in Workers |-> 0]
    /\ server = "accepting"

\* a client connects; the connections are numbered as they arrive
ClientConnect ==
    /\ \E c \in DOMAIN conn :
          /\ conn[c].pc = "absent"
          /\ \A d \in DOMAIN conn : d < c => conn[d].pc # "absent"
          /\ conn' = [conn EXCEPT ![c] = NewConn]
          /\ backlog' = Append(backlog, c)
    /\ UNCHANGED <<base_directory, fs, work_queue, worker, server>>

Next ==
    \/ ClientConnect
    \/ ClientStall
    \/ Accept
    \/ \E w \in Workers : WorkerTake(w)
    \/ \E w \in Workers : Recv(w)
    \/ \E w \in Workers : Route(w)
    \/ \E w \in Workers : Send(w)
    \/ \E w \in Workers : Except(w)
    \/ \E w \in Workers : Finally(w)

Spec == Init /\ [][Next]_vars

\* a step of some running handle_request can be taken: all but a recv of a
\* client that stalls.  This is ENABLED <<WorkerStep>>_vars, as a predicate
WorkerStep == \E w \in Workers : Recv(w) \/ Route(w) \/ Send(w) \/ Except(w) \/ Finally(w)
CanStep ==
    \E w \in Workers :
        /\ worker[w] # 0
        /\ conn[worker[w]].pc \in {"recv", "dispatch", "send", "except", "finally"}
        /\ conn[worker[w]].pc = "recv" => conn[worker[w]].client.kind # "stall"
\* a step of WorkerStep: the only steps that move a running handler on
Stepped ==
    \E w \in Workers :
        /\ worker[w] # 0
        /\ conn'[worker[w]].pc # conn[worker[w]].pc

\* the threads are scheduled: the accept loop accepts a waiting connection, a
\* free worker takes a submitted call, and while a step of some running
\* handle_request can be taken, one is taken (WF_vars(WorkerStep), with its
\* ENABLED written as the predicate CanStep)
FairSpec ==
    /\ Spec
    /\ WF_vars(Accept)
    /\ WF_vars(\E w \in Workers : WorkerTake(w))
    /\ ([]<>(~CanStep) \/ []<><<Stepped>>_vars)

(***************************************************************************)
(* PoolSpec: more clients than worker threads.  The clients send nothing:  *)
(* the first PoolQuick of them close, so that the call for each is the     *)
(* read, the close and nothing else, and the others hold their connections *)
(* open, so that the read of each never returns.                           *)
(***************************************************************************)
PoolConns == 11
PoolQuick == 3

PoolRecv(w) ==
    /\ worker[w] \in 1..PoolQuick
    /\ RecvFrom(w, {Eof})

PoolInit ==
    /\ base_directory = D_TMP
    /\ fs = InitialFs
    /\ conn = [c \in 1..PoolConns |-> Absent]
    /\ backlog = <<>>
    /\ work_queue = <<>>
    /\ worker = [w \in Workers |-> 0]
    /\ server = "accepting"

PoolNext ==
    \/ ClientConnect
    \/ Accept
    \/ \E w \in Workers : WorkerTake(w)
    \/ \E w \in Workers : PoolRecv(w)
    \/ \E w \in Workers : Finally(w)

PoolSpec == PoolInit /\ [][PoolNext]_vars

(***************************************************************************)
(* StallSpec: all but one of the workers are held by clients that send     *)
(* nothing and keep their connections: the read of each never returns.     *)
(* The clients that connect after them send a request.                     *)
(***************************************************************************)
StallSenders == 2
Stallers == 1..(max_workers - 1)
StallConns == (max_workers - 1) + StallSenders

StallClients == {Request(r) : r \in {GetEchoGzip, GetLongLine}}

StallRecv(w) ==
    /\ worker[w] \notin Stallers
    /\ RecvFrom(w, StallClients)

StallInit ==
    /\ base_directory = D_TMP
    /\ fs = InitialFs
    /\ conn = [c \in 1..StallConns |-> Absent]
    /\ backlog = <<>>
    /\ work_queue = <<>>
    /\ worker = [w \in Workers |-> 0]
    /\ server = "accepting"

StallNext ==
    \/ ClientConnect
    \/ Accept
    \/ \E w \in Workers : WorkerTake(w)
    \/ \E w \in Workers : StallRecv(w)
    \/ \E w \in Workers : Route(w)
    \/ \E w \in Workers : Send(w)
    \/ \E w \in Workers : Except(w)
    \/ \E w \in Workers : Finally(w)

\* a step of some running handle_request can be taken: all but the read of a
\* client that sends nothing
StallCanStep ==
    \E w \in Workers :
        /\ worker[w] # 0
        /\ conn[worker[w]].pc \in {"recv", "dispatch", "send", "except", "finally"}
        /\ conn[worker[w]].pc = "recv" => worker[w] \notin Stallers

\* the threads are scheduled, as in FairSpec
StallSpec ==
    /\ StallInit /\ [][StallNext]_vars
    /\ WF_vars(Accept)
    /\ WF_vars(\E w \in Workers : WorkerTake(w))
    /\ ([]<>(~StallCanStep) \/ []<><<Stepped>>_vars)

(***************************************************************************)
(* ShutdownSpec: the accept loop is interrupted (KeyboardInterrupt in the  *)
(* main thread) while clients connect and their connections are handled.   *)
(***************************************************************************)
\* a process that exits at the interrupt, without the wait of the executor
ExitAbrupt ==
    /\ server = "draining"
    /\ server' = "exited"
    /\ UNCHANGED <<base_directory, fs, conn, backlog, work_queue, worker>>

\* KeyboardInterrupt leaves the loop of lines 18-21: raised in accept(), or
\* raised after accept() has returned a connection and before it is submitted,
\* which then no worker ever handles.  The with statement of the executor now
\* waits for the submitted calls
Interrupt ==
    /\ server = "accepting"
    /\ server' = "draining"
    /\ \/ UNCHANGED <<conn, backlog>>
       \/ /\ backlog # <<>>
          /\ conn' = [conn EXCEPT ![Head(backlog)].pc = "unsubmitted"]
          /\ backlog' = Tail(backlog)
    /\ UNCHANGED <<base_directory, fs, work_queue, worker>>

\* executor.shutdown(wait=True) returns when the queue is empty and every
\* worker thread has ended; the listening socket is closed and sys.exit(0)
\* ends the process
Exit ==
    /\ server = "draining"
    /\ work_queue = <<>>
    /\ \A w \in Workers : worker[w] = 0
    /\ server' = "exited"
    /\ UNCHANGED <<base_directory, fs, conn, backlog, work_queue, worker>>

\* the clients send a request, or close without sending, or send nothing
ShutdownRecv(w) == RecvFrom(w, {Request(GetEchoGzip), Eof})

ShutdownNext ==
    \/ ClientConnect
    \/ ClientStall
    \/ Accept
    \/ Interrupt
    \/ Exit
    \/ \E w \in Workers : WorkerTake(w)
    \/ \E w \in Workers : ShutdownRecv(w)
    \/ \E w \in Workers : Route(w)
    \/ \E w \in Workers : Send(w)
    \/ \E w \in Workers : Except(w)
    \/ \E w \in Workers : Finally(w)

\* the threads are scheduled, as in FairSpec, and the main thread leaves the
\* with statement when the executor lets it
ShutdownSpec ==
    /\ Init /\ [][ShutdownNext]_vars
    /\ WF_vars(\E w \in Workers : WorkerTake(w))
    /\ WF_vars(Exit)
    /\ ([]<>(~CanStep) \/ []<><<Stepped>>_vars)

(***************************************************************************)
(* LinkSpec: one client at a time, as in SeqSpec, on a filesystem where    *)
(* the base directory /tmp holds a symbolic link to a file outside it and  *)
(* has a sibling directory /tmp2.                                          *)
(***************************************************************************)
P_FILES_LN == <<"/", "f", "i", "l", "e", "s", "/", "l", "n">>
P_FILES_SIBLING ==
    <<"/", "f", "i", "l", "e", "s", "/", ".", ".", "/", "t", "m", "p", "2", "/", "x">>
F_LN == <<"/", "t", "m", "p", "/", "l", "n">>
F_SECRET == <<"/", "s", "e", "c", "r", "e", "t">>
D_TMP2 == <<"/", "t", "m", "p", "2">>
F_TMP2_X == <<"/", "t", "m", "p", "2", "/", "x">>

LinkFs ==
    [p \in {SLASH, D_TMP, F_LN, F_SECRET, D_TMP2, F_TMP2_X} |->
        IF p \in {SLASH, D_TMP, D_TMP2} THEN Dir
        ELSE IF p = F_LN THEN Link(F_SECRET)
        ELSE File(<<"s">>)]

LinkPaths == {P_FILES_LN, P_FILES_UP, P_FILES_SIBLING, P_FILES_A}

LinkClients ==
    {Request(Req(<<RequestLine(S_GET, p)>>, Some(<<>>))) : p \in LinkPaths}
    \cup {Request(Req(<<RequestLine(S_POST, p), L_CL_2>>, Some(T_HI))) : p \in LinkPaths}

LinkRecv(w) == RecvFrom(w, LinkClients)

LinkInit ==
    /\ base_directory = D_TMP
    /\ fs = LinkFs
    /\ conn = [c \in {1} |-> Absent]
    /\ backlog = <<>>
    /\ work_queue = <<>>
    /\ worker = [w \in Workers |-> 0]
    /\ server = "accepting"

LinkNext ==
    \/ NextClient
    \/ Accept
    \/ \E w \in Workers : WorkerTake(w)
    \/ \E w \in Workers : LinkRecv(w)
    \/ \E w \in Workers : Dispatch(w)
    \/ \E w \in Workers : Send(w)
    \/ \E w \in Workers : Except(w)
    \/ \E w \in Workers : Finally(w)

LinkSpec == LinkInit /\ [][LinkNext]_vars

(***************************************************************************)
(* RaceSpec: RaceConns clients get and upload the one file /tmp/a, and the *)
(* workers handle them concurrently.  The upload is taken system call by   *)
(* system call: open(file_path, "w") truncates the file, and the write of  *)
(* the body, flushed when the file is closed, puts the bytes at the start  *)
(* of the file as it then is.  The read handler's open and read are one    *)
(* step.                                                                   *)
(***************************************************************************)
RaceConns == 2

T_OLD == <<"o", "l", "d">>
T_HELLO == <<"h", "e", "l", "l", "o">>
F_A == <<"/", "t", "m", "p", "/", "a">>

RaceFs == [p \in {SLASH, D_TMP, F_A} |-> IF p = F_A THEN File(T_OLD) ELSE Dir]

RaceClients ==
    {Request(Req(<<RequestLine(S_GET, P_FILES_A)>>, Some(<<>>))),
     Request(Req(<<RequestLine(S_POST, P_FILES_A), L_CL_2>>, Some(T_HI))),
     Request(Req(<<RequestLine(S_POST, P_FILES_A), L_CL_5>>, Some(T_HELLO)))}

RaceRecv(w) == RecvFrom(w, RaceClients)

\* the file after a write of b at offset 0 through a descriptor opened before
WriteAtStart(files, p, b) ==
    [files EXCEPT ![follow(files, p)] =
        File(b \o SubSeq(@.data, Len(b) + 1, Len(@.data)))]

\* lines 15-53, up to and with open(file_path, "w") when the request is an
\* upload that passes the checks of the write handler: r is what the whole of
\* the routing gives
OpenOrReturn(r, files) ==
    IF r.conn.pc = "send" /\ r.conn.response.status_code = "201 Created"
    THEN [conn |-> [r.conn EXCEPT !.pc = "write"],
          fs |-> WriteFile(files, r.conn.opened.v, <<>>)]
    ELSE r

AfterOpen(cn, base, files) ==
    OpenOrReturn(AfterDispatch(cn, base, files, "none", "none"), files)

\* lines 43-44: f.write(request_body), the close of the file, and the 201
AfterWrite(cn, base, files) ==
    [conn |-> [cn EXCEPT !.pc = "send"],
     fs |-> WriteAtStart(files, cn.opened.v,
                ReadFile(AfterDispatch([cn EXCEPT !.pc = "dispatch"], base, files,
                                       "none", "none").fs,
                         cn.opened.v))]

RaceRoute(w) ==
    /\ At(w, "dispatch")
    /\ \E r \in {AfterOpen(conn[worker[w]], base_directory, fs)} :
          /\ conn' = [conn EXCEPT ![worker[w]] = r.conn]
          /\ fs' = r.fs
    /\ UNCHANGED <<base_directory, backlog, work_queue, worker, server>>

RaceWrite(w) ==
    /\ At(w, "write")
    /\ \E r \in {AfterWrite(conn[worker[w]], base_directory, fs)} :
          /\ conn' = [conn EXCEPT ![worker[w]] = r.conn]
          /\ fs' = r.fs
    /\ UNCHANGED <<base_directory, backlog, work_queue, worker, server>>

RaceInit ==
    /\ base_directory = D_TMP
    /\ fs = RaceFs
    /\ conn = [c \in 1..RaceConns |-> Absent]
    /\ backlog = <<>>
    /\ work_queue = <<>>
    /\ worker = [w \in Workers |-> 0]
    /\ server = "accepting"

RaceNext ==
    \/ ClientConnect
    \/ Accept
    \/ \E w \in Workers : WorkerTake(w)
    \/ \E w \in Workers : RaceRecv(w)
    \/ \E w \in Workers : RaceRoute(w)
    \/ \E w \in Workers : RaceWrite(w)
    \/ \E w \in Workers : Send(w)
    \/ \E w \in Workers : Except(w)
    \/ \E w \in Workers : Finally(w)

RaceSpec == RaceInit /\ [][RaceNext]_vars

(***************************************************************************)
(* The properties                                                          *)
(***************************************************************************)
Conns == DOMAIN conn

\* a worker runs handle_request for the connection
Handling(c) == conn[c].pc \in {"recv", "dispatch", "send", "except", "finally"}
Stalled(c) == conn[c].client.kind = "stall"

\* the fixed response of the except clause, as it is on the wire
ServerError500 ==
    [status_code |-> "500 Internal Server Error", content_type |-> "text/plain",
     content_encoding |-> "", content_length |-> 12,
     body |-> <<"S", "e", "r", "v", "e", "r", " ", "E", "r", "r", "o", "r">>]

\* C1: every connection that a worker has started to handle is eventually
\* closed, whichever way handle_request is left: after the response is sent,
\* after an empty read, after an exception of the read, the parse or the
\* dispatch, and after a failed write of the response and of the fallback 500.
\* (The one call that is never left is the read of a client that stalls.)
C1_EventuallyClosed ==
    \A c \in 1..NumConns : Handling(c) ~> (conn[c].closed \/ Stalled(c))

\* both writes failed, the OSError of the second left the call, and the socket
\* is closed
C1_ClosedAfterFailedWrites ==
    \E c \in Conns :
        /\ conn[c].closed
        /\ Len(conn[c].out) = 2
        /\ conn[c].out[1].sent # "all"
        /\ conn[c].out[2].sent # "all"
        /\ conn[c].escaped = "OSError"

\* the step of c's handler out of a failure that was raised before any
\* response was handed to sendall
FailedEarly(c) == conn[c].pc = "except" /\ conn[c].out = <<>>

\* C2: a failure raised by the read, the parse or the dispatch of a connection
\* is caught in its handler: the next step of the handler hands the fixed 500
\* "Server Error" to sendall and goes on to close; nothing but an OSError of
\* that very write leaves the call; the step changes no other connection, nor
\* the filesystem, the queue or the pool; and no worker stays bound to a
\* connection whose call has ended.
C2_Step(c) ==
    (FailedEarly(c) /\ conn'[c] # conn[c]) =>
        /\ conn'[c].pc = "finally"
        /\ conn'[c].response = ServerError500
        /\ Len(conn'[c].out) = 1
        /\ conn'[c].out[1].response = ServerError500
        /\ conn'[c].escaped # "none" =>
              (conn'[c].escaped = "OSError" /\ conn'[c].out[1].sent # "all")
        /\ \A d \in Conns \ {c} : conn'[d] = conn[d]
        /\ UNCHANGED <<base_directory, fs, backlog, work_queue, worker, server>>

C2_PoolIntact ==
    /\ server = "accepting"
    /\ \A w \in Workers : worker[w] # 0 => Handling(worker[w])
    /\ \A c \in Conns : conn[c].pc = "done" => conn[c].closed

C2_FailureContained ==
    [][C2_PoolIntact /\ C2_PoolIntact' /\ \A c \in Conns : C2_Step(c)]_vars

\* a connection whose request failed to decode was answered 500 while another
\* was being handled, and the worker that handled it has taken a later one
C2_WorkerReused ==
    \E c, d \in Conns :
        /\ c # d
        /\ conn[c].pc = "done"
        /\ conn[c].out = <<[response |-> ServerError500, sent |-> "all", line |-> 59]>>
        /\ conn[c].escaped = "none"
        /\ Handling(d)
        /\ conn[d].by = conn[c].by
        /\ conn[d].client.kind = "request"

\* the request line of the text received, and its space-separated tokens
FirstLine(data) == split(data, CRLF)[1]
Tokens(data) == split(FirstLine(data), <<SP>>)

\* handle_request has parsed and routed c's request, whose first line has
\* fewer than three tokens
Malformed(c) ==
    /\ conn[c].pc \in {"send", "except", "finally", "done"}
    /\ conn[c].request_data # <<>>
    /\ Len(Tokens(conn[c].request_data)) < 3

\* the response of the last branch of the routing, as it is on the wire
MethodNotAllowed405 ==
    [status_code |-> "405 Method Not Allowed", content_type |-> "text/plain",
     content_encoding |-> "", content_length |-> 27,
     body |-> <<"O", "n", "l", "y", " ", "G", "E", "T", " ", "a", "n", "d", " ",
                "P", "O", "S", "T", " ", "s", "u", "p", "p", "o", "r", "t", "e", "d">>]

\* C3, as the specification states it: a request whose first line has fewer
\* than three tokens is answered with the fixed 500 of the connection layer
\* and reaches no routing branch
C3_MalformedGets500 ==
    \A c \in Conns : Malformed(c) =>
        /\ conn[c].pc # "send"
        /\ conn[c].out # <<>> => conn[c].out[1].response = ServerError500

\* C3, as the code has it: a request whose first line has fewer than three
\* tokens raises nothing; it falls through the routing to its last branch and
\* is answered 405 "Only GET and POST supported", uncompressed whatever its
\* Accept-Encoding.  The fixed 500 follows only when the write of the 405 fails
C3_MalformedGets405 ==
    \A c \in Conns : Malformed(c) =>
        /\ conn[c].pc = "send" => conn[c].response = MethodNotAllowed405
        /\ conn[c].pc # "send" =>
              /\ conn[c].out # <<>>
              /\ conn[c].out[1] \in
                    [response : {MethodNotAllowed405}, sent : SendOutcomes, line : {55}]
              /\ Len(conn[c].out) = 2 => conn[c].out[1].sent # "all"

\* "GET /" and an Accept-Encoding of gzip were answered with the plain 405
C3_ShortLineAnswered ==
    \E c \in Conns :
        /\ Malformed(c)
        /\ conn[c].pc = "done"
        /\ Contains(conn[c].request_data, S_GZIP)
        /\ conn[c].out = <<[response |-> MethodNotAllowed405, sent |-> "all", line |-> 55]>>

Status4xx5xx ==
    {"400 Bad Request", "403 Forbidden", "404 Not Found", "405 Method Not Allowed",
     "411 Length Required", "500 Internal Server Error"}

\* C4: once the call for a request whose first line has fewer than three
\* tokens has ended, the server still accepts, the worker is free, the socket
\* is closed, and exactly one response, of a 4xx or 5xx status, was handed to
\* the socket
C4_OneErrorResponse ==
    \A c \in Conns : (Malformed(c) /\ conn[c].pc = "done") =>
        /\ server = "accepting"
        /\ \A w \in Workers : worker[w] # c
        /\ conn[c].closed
        /\ Len(conn[c].out) = 1
        /\ conn[c].out[1].response.status_code \in Status4xx5xx

\* the content of a response: its body, decompressed when it is gzip-encoded
Content(resp) ==
    IF resp.content_encoding = "gzip" THEN gzip_decompress(resp.body) ELSE resp.body
Is(resp, status, content) == resp.status_code = status /\ Content(resp) = content

\* the text that ^/echo/(.+)$ captures in a path: what follows "/echo/" when it
\* is not empty and holds no line feed, but for one that ends the path
EchoText(path) ==
    LET n == Len(S_ECHO_PREFIX)
        text == SubSeq(path, n + 1, Len(path))
        line == IF text # <<>> /\ text[Len(text)] = LF
                THEN SubSeq(text, 1, Len(text) - 1) ELSE text
    IN  IF Len(path) > n /\ SubSeq(path, 1, n) = S_ECHO_PREFIX
           /\ line # <<>> /\ \A i \in 1..Len(line) : line[i] # LF
        THEN Some(line)
        ELSE None

UnderFiles(path) == Len(path) >= 7 /\ SubSeq(path, 1, 7) = <<"/", "f", "i", "l", "e", "s", "/">>

\* the routing table: the response resp and the filesystem after for a request
\* of three tokens, received as data when the filesystem was before
RoutingTable(data, base, before, after, resp) ==
    LET method == Tokens(data)[1]
        path == Tokens(data)[2]
        headers == HeaderDict(split(data, CRLF))
        encodings == SupportedEncodings(headers)
    IN  IF method = <<"G", "E", "T">>
        THEN IF path = <<"/">>
             THEN Is(resp, "200 OK", <<>>)
             ELSE IF EchoText(path).some
             THEN Is(resp, "200 OK", encode(EchoText(path).v))
             ELSE IF path = <<"/", "u", "s", "e", "r", "-", "a", "g", "e", "n", "t">>
             THEN Is(resp, "200 OK",
                     encode(IF H_USER_AGENT \in DOMAIN headers THEN headers[H_USER_AGENT]
                            ELSE <<"U", "n", "k", "n", "o", "w", "n">>))
             ELSE IF UnderFiles(path)
             THEN \E fault \in ReadFaults :
                     resp = handle_file_request(path, base, encodings, before, fault).response
             ELSE Is(resp, "404 Not Found", <<"N", "o", "t", " ", "F", "o", "u", "n", "d">>)
        ELSE IF method = <<"P", "O", "S", "T">> /\ UnderFiles(path)
        THEN \E fault \in WriteFaults :
                LET r == handle_file_upload(data, path, base, headers, before, fault)
                IN  r.exc = "none" /\ r.response = resp /\ r.fs = after
        ELSE resp = MethodNotAllowed405

\* C5: the response that the dispatch of a request of three tokens hands on
\* is the one of the routing table, taken in its order: GET "/" 200 and empty;
\* GET ^/echo/(.+)$ 200 with the text; GET /user-agent 200 with the header's
\* value or "Unknown"; GET /files/... what the read handler returns; any
\* other GET 404 "Not Found"; POST /files/... what the write handler returns;
\* all else 405 "Only GET and POST supported"
C5_RoutedByTable ==
    [][\A c \in Conns :
          (/\ conn[c].pc = "dispatch"
           /\ conn'[c].pc = "send"
           /\ Len(Tokens(conn[c].request_data)) = 3) =>
              RoutingTable(conn[c].request_data, base_directory, fs, fs',
                           conn'[c].response)]_vars

\* GET /echo/, the echo of no text, was routed to 404 "Not Found"
C5_EmptyEchoNotFound ==
    \E c \in Conns :
        /\ conn[c].pc = "send"
        /\ Len(Tokens(conn[c].request_data)) = 3
        /\ Tokens(conn[c].request_data)[1] = <<"G", "E", "T">>
        /\ Tokens(conn[c].request_data)[2] = <<"/", "e", "c", "h", "o", "/">>
        /\ Is(conn[c].response, "404 Not Found", <<"N", "o", "t", " ", "F", "o", "u", "n", "d">>)

\* the request that c's client has sent, when it has sent one
Sent(c) == conn[c].client.req
HasSent(c) ==
    /\ conn[c].pc \in {"dispatch", "send", "except", "finally", "done"}
    /\ conn[c].client.kind = "request"

\* the header lines of a request as the client wrote them, and the value of
\* the last of a name
HeaderLines(r, name) ==
    {i \in 2..Len(r.head) : Contains(r.head[i], <<":">>) /\ HeaderKey(r.head[i]) = name}
Header(r, name) == HeaderValue(r.head[Max(HeaderLines(r, name))])

\* an upload of the payload r.body.v to /files/a, a name of one segment, whose
\* Content-Length is the byte count of the payload
Upload(r) ==
    /\ r.head # <<>>
    /\ r.head[1] = <<"P", "O", "S", "T", " ", "/", "f", "i", "l", "e", "s", "/", "a", " ",
                     "H", "T", "T", "P", "/", "1", ".", "1">>
    /\ r.body.some
    /\ HeaderLines(r, H_CONTENT_LENGTH) # {}
    /\ LET value == Header(r, H_CONTENT_LENGTH)
       IN  /\ value # <<>>
           /\ \A i \in 1..Len(value) : IsDecimal(value[i])
           /\ decimalValue(value) = Len(r.body.v)

\* the file that /files/a names
FileA == IF base_directory = <<"/">> THEN <<"/", "a">> ELSE base_directory \o <<"/", "a">>

\* the filesystem failed the write of the upload, or the read of the download
IoFailed(c) ==
    \E i \in DOMAIN conn[c].out :
        /\ conn[c].out[i].line = 55
        /\ conn[c].out[i].response.status_code \in
              {"500 Internal Server Error", "404 Not Found", "403 Forbidden"}
        /\ Content(conn[c].out[i].response) \in
              {B_FILE_WRITE_ERROR, B_FILE_NOT_FOUND_ERROR, B_PERMISSION_DENIED, B_OS_ERROR,
               B_SERVER_ERROR}

\* C6: once the call for an upload of a payload b to /files/a with
\* Content-Length len(b) has ended, and the filesystem has not failed, the
\* response written first is 201 and the file holds exactly b; and a GET of
\* /files/a that finds the file is answered 200 with exactly the bytes the
\* file holds
C6_RoundTrip ==
    \A c \in Conns : (HasSent(c) /\ conn[c].pc = "done" /\ ~IoFailed(c)) =>
        /\ Upload(Sent(c)) =>
              /\ conn[c].out # <<>>
              /\ conn[c].out[1].response.status_code = "201 Created"
              /\ isfile(fs, FileA)
              /\ fs[FileA].data = Sent(c).body.v
        /\ (/\ Tokens(conn[c].request_data) =
                  <<S_GET, <<"/", "f", "i", "l", "e", "s", "/", "a">>, HTTP11>>
            /\ isfile(fs, FileA)) =>
              /\ conn[c].out # <<>>
              /\ Is(conn[c].out[1].response, "200 OK", fs[FileA].data)

\* the name that follows "/files/" in a path, and the components of a path
\* once "." and ".." are resolved
FilesName(path) == SubSeq(path, 8, Len(path))
Resolved(p) == normComps(split(p, <<"/">>), <<>>)
IsPrefix(s, t) == Len(s) <= Len(t) /\ SubSeq(t, 1, Len(s)) = s

\* a path under /files/ whose name has a ".." component and that resolves,
\* against base, to a location outside base
Traversal(path, base) ==
    /\ UnderFiles(path)
    /\ \E i \in DOMAIN split(FilesName(path), <<"/">>) :
          split(FilesName(path), <<"/">>)[i] = <<".", ".">>
    /\ ~IsPrefix(Resolved(base), Resolved(base \o <<"/">> \o FilesName(path)))

\* the routing has answered c's GET or POST of a traversal path
TraversalRouted(c) ==
    /\ conn[c].pc = "send"
    /\ Len(Tokens(conn[c].request_data)) = 3
    /\ Tokens(conn[c].request_data)[1] \in {<<"G", "E", "T">>, <<"P", "O", "S", "T">>}
    /\ Traversal(Tokens(conn[c].request_data)[2], base_directory)

\* C7, as the specification states it: every GET and every POST of a path
\* under /files/ that holds a traversal sequence and resolves outside the base
\* directory is answered 403
C7_TraversalGets403 ==
    \A c \in Conns : TraversalRouted(c) => conn[c].response.status_code = "403 Forbidden"

\* C7, as the code has it: whatever the headers, GET and POST of such a path
\* are answered 403 "Access Denied" when the name is the one segment "..",
\* and 400 "Invalid file request" when the name has more than one segment
\* (the pattern ^/files/([^/]+)$ rejects it before the path is resolved)
C7_TraversalRefused ==
    \A c \in Conns : TraversalRouted(c) =>
        IF Contains(FilesName(Tokens(conn[c].request_data)[2]), <<"/">>)
        THEN Is(conn[c].response, "400 Bad Request",
                <<"I", "n", "v", "a", "l", "i", "d", " ", "f", "i", "l", "e", " ",
                  "r", "e", "q", "u", "e", "s", "t">>)
        ELSE Is(conn[c].response, "403 Forbidden",
                <<"A", "c", "c", "e", "s", "s", " ", "D", "e", "n", "i", "e", "d">>)

\* a POST of /files/.. was answered 403
C7_UploadRefused ==
    \E c \in Conns :
        /\ TraversalRouted(c)
        /\ Tokens(conn[c].request_data)[1] = <<"P", "O", "S", "T">>
        /\ Tokens(conn[c].request_data)[2] = <<"/", "f", "i", "l", "e", "s", "/", ".", ".">>
        /\ conn[c].response.status_code = "403 Forbidden"

\* the lines of the request as the server receives and splits them: the
\* request line, the header lines, the blank line and the lines of the body
ReceivedLines(r) ==
    LET wire == Wire(r)
    IN  split(decode(SubSeq(wire, 1, Min({4096, Len(wire)}))).v, <<CR, LF>>)

\* the Accept-Encoding that the server takes from the request, the value of
\* the last line of that name wherever it stands in the request, lists gzip
\* among its comma-separated tokens, whatever the case of its letters
ListsGzip(r) ==
    LET lines == ReceivedLines(r)
        ae == {i \in 2..Len(lines) :
                 Contains(lines[i], <<":", " ">>) /\ HeaderKey(lines[i]) = H_ACCEPT_ENCODING}
    IN  /\ ae # {}
        /\ \E token \in Range(split(HeaderValue(lines[Max(ae)]), <<",">>)) :
              lower(strip(token)) = <<"g", "z", "i", "p">>

\* c's request is a GET: a first line of three tokens, the first of them GET
IsGet(c) ==
    /\ HasSent(c)
    /\ conn[c].request_data # <<>>
    /\ Len(Tokens(conn[c].request_data)) = 3
    /\ Tokens(conn[c].request_data)[1] = <<"G", "E", "T">>

\* the request without its Accept-Encoding lines, as the server decodes it
NotAcceptEncoding(line) ==
    ~(Contains(line, <<":">>) /\ HeaderKey(line) = H_ACCEPT_ENCODING)
RECURSIVE JoinCrlf(_)
JoinCrlf(lines) ==
    IF Len(lines) = 1 THEN lines[1] ELSE lines[1] \o <<CR, LF>> \o JoinCrlf(Tail(lines))
Unnegotiated(r) ==
    LET lines == ReceivedLines(r)
    IN  JoinCrlf(<<lines[1]>> \o SelectSeq(Tail(lines), NotAcceptEncoding))

\* the responses handed to c's socket
Written(c) == {conn[c].out[i] : i \in DOMAIN conn[c].out}

Status405_411_500 ==
    {"405 Method Not Allowed", "411 Length Required", "500 Internal Server Error"}

BeingHandled == {c \in Conns : Handling(c)}
HandledBy(c) == {w \in Workers : worker[w] = c}

\* each connection is with one worker while it is handled and with none
\* before and after, and its call is started once
OneWorkerOnce ==
    \A c \in Conns :
        /\ Handling(c) => (HandledBy(c) = {conn[c].by} /\ conn[c].runs = 1)
        /\ conn[c].pc = "done" => (HandledBy(c) = {} /\ conn[c].runs = 1 /\ conn[c].closed)
        /\ conn[c].pc \in {"absent", "pending", "queued"} =>
              (HandledBy(c) = {} /\ conn[c].runs = 0)

\* the step that starts c's call is taken by a worker that runs nothing and
\* whose earlier connections are all closed; c stays queued while every worker
\* is busy
StartedByFreeWorker(c) ==
    /\ (conn[c].pc = "queued" /\ conn'[c].pc # "queued") =>
          /\ conn'[c].pc = "recv"
          /\ conn'[c].by \in Workers
          /\ worker[conn'[c].by] = 0
          /\ worker'[conn'[c].by] = c
          /\ \A d \in Conns \ {c} :
                conn[d].by = conn'[c].by => (conn[d].pc = "done" /\ conn[d].closed)
    /\ (conn[c].pc = "queued" /\ \A w \in Workers : worker[w] # 0) =>
          conn'[c].pc = "queued"

\* C10: at most 10 connections are being handled at any moment; each accepted
\* connection is handled by exactly one worker and exactly once; and a
\* connection accepted while all the workers are busy waits in the queue and
\* is started only by a worker that has finished its previous connection
C10_BoundedPool ==
    [][/\ Cardinality(BeingHandled) <= 10
       /\ Cardinality(BeingHandled') <= 10
       /\ OneWorkerOnce
       /\ OneWorkerOnce'
       /\ \A c \in Conns : StartedByFreeWorker(c)]_vars

\* ten connections are being handled, one of them the eleventh, started by a
\* worker whose previous connection is closed
C10_EleventhStarted ==
    /\ Cardinality(BeingHandled) = 10
    /\ \E c, d \in Conns :
          /\ c > 10
          /\ Handling(c)
          /\ conn[d].pc = "done"
          /\ conn[d].closed
          /\ conn[d].by = conn[c].by

\* the connections whose clients send a request in StallSpec
Senders == Conns \ Stallers

\* c's request was parsed and routed, a response was handed to its socket and
\* the socket is closed
Served(c) ==
    /\ conn[c].pc = "done"
    /\ conn[c].closed
    /\ conn[c].request_data # <<>>
    /\ conn[c].out # <<>>

\* C11: a client that sends nothing and keeps its connection holds exactly one
\* worker, the one that started its call, and with fewer such clients than
\* workers every other accepted connection whose client sends its request is
\* eventually taken by a worker, parsed and routed, answered and closed
C11_StallDoesNotBlock ==
    /\ [](\A c \in Stallers : Handling(c) => HandledBy(c) = {conn[c].by})
    /\ [](Cardinality({c \in Conns : Handling(c) /\ c \in Stallers}) < max_workers)
    /\ \A c \in (1..StallConns) \ Stallers : (conn[c].pc = "queued") ~> Served(c)

\* nine workers are held in the read of a silent client, and two later
\* connections were served in full, one after the other, by the tenth
C11_ServedBesideStalled ==
    /\ \A c \in Stallers : conn[c].pc = "recv" /\ HandledBy(c) # {}
    /\ \E c, d \in Senders :
          /\ c # d
          /\ Served(c) /\ Served(d)
          /\ conn[c].by = conn[d].by
          /\ conn[c].out[1].sent = "all"

\* a connection that was accepted and submitted and whose call has not ended
InFlightOrQueued(c) == conn[c].pc = "queued" \/ Handling(c)

\* the steps after the interrupt: nothing is accepted, a queued call is left
\* in the queue until a worker starts it, and a running call goes on
AfterInterrupt ==
    server # "accepting" =>
        /\ server' # "accepting"
        /\ \A c \in Conns :
              /\ conn[c].pc \in {"absent", "pending"} =>
                    conn'[c].pc \in {"absent", "pending"}
              /\ conn[c].pc = "queued" => conn'[c].pc \in {"queued", "recv"}
              /\ conn[c].pc = "unsubmitted" => conn'[c] = conn[c]
              /\ Handling(c) => (Handling(c)' \/ (conn'[c].pc = "done" /\ conn'[c].closed))

\* C12: after the interrupt of the accept loop no connection is accepted; no
\* submitted call is cancelled; the process exits only when every connection
\* that was in a worker or in the queue is closed; and, the threads being
\* scheduled, each of them is closed, and the process exits, unless a client
\* sends nothing and keeps its connection
C12_DrainsBeforeExit ==
    /\ [][AfterInterrupt]_vars
    /\ [](server = "exited" =>
            \A c \in Conns : ~InFlightOrQueued(c) /\ (conn[c].pc = "done" => conn[c].closed))
    /\ \A c \in 1..NumConns :
          (server = "draining" /\ InFlightOrQueued(c)) ~> (conn[c].closed \/ Stalled(c))
    /\ (server = "draining") ~> (server = "exited" \/ \E c \in Conns : Stalled(c))

\* the loop is interrupted, with one call waiting in the queue and another
\* running
C12_InterruptedWhileBusy ==
    /\ server = "draining"
    /\ \E c, d \in Conns :
          /\ conn[c].pc = "queued"
          /\ Handling(d)

\* the read of c's socket has returned no data
EmptyRead(c) == conn[c].client.kind = "eof" \/ (HasSent(c) /\ Wire(Sent(c)) = <<>>)

\* C13: when the read of a connection returns no data, the call goes from the
\* read straight to the close: nothing is parsed or routed, no response is
\* formatted, nothing is handed to the socket, the filesystem is left as it
\* was, and the next step closes the socket and ends the call
C13_EmptyReadCloses ==
    /\ [](\A c \in Conns : EmptyRead(c) =>
            /\ conn[c].pc \in {"finally", "done"}
            /\ conn[c].request_data = <<>>
            /\ conn[c].response = NoResponse
            /\ conn[c].out = <<>>
            /\ conn[c].exc = "none" /\ conn[c].escaped = "none"
            /\ conn[c].pc = "done" => conn[c].closed)
    /\ [][\A c \in Conns : (EmptyRead(c)' /\ conn'[c] # conn[c]) =>
            /\ fs' = fs
            /\ \/ conn[c].pc = "recv" /\ conn'[c].pc = "finally"
               \/ conn[c].pc = "finally" /\ conn'[c].pc = "done"]_vars

\* a client closed before it sent anything, and its connection was closed with
\* nothing written
C13_ClosedSilently ==
    \E c \in Conns :
        /\ conn[c].client.kind = "eof"
        /\ conn[c].pc = "done"
        /\ conn[c].closed
        /\ conn[c].out = <<>>
        /\ conn[c].runs = 1

\* the text is a POST of a path under /files/, with a first line of three tokens
IsUploadRequest(data) ==
    /\ Len(Tokens(data)) = 3
    /\ Tokens(data)[1] = <<"P", "O", "S", "T">>
    /\ UnderFiles(Tokens(data)[2])

\* a decimal numeral: one or more of the digits 0 to 9
Numeral(s) == s # <<>> /\ \A i \in 1..Len(s) : s[i] \in {"0", "1", "2", "3", "4", "5", "6", "7", "8", "9"}

\* the location that base and the name resolve to, and whether it is the base
\* directory or under it
Target(base, name) == Resolved(base \o <<"/">> \o name)
Inside(base, name) == IsPrefix(Resolved(base), Target(base, name))
PathOf(comps) == <<"/">> \o joinComps(comps)

\* the order of the write handler's checks: the response resp and the
\* filesystem after, for the upload received as data when the filesystem was
\* before
UploadTable(data, base, before, after, resp) ==
    LET path == Tokens(data)[2]
        name == FilesName(path)
        headers == HeaderDict(split(data, CRLF))
        key == <<"c", "o", "n", "t", "e", "n", "t", "-", "l", "e", "n", "g", "t", "h">>
    IN  IF name = <<>> \/ Contains(name, <<"/">>)
        THEN after = before /\ resp = format_response("400 Bad Request",
                 Str(<<"I", "n", "v", "a", "l", "i", "d", " ", "f", "i", "l", "e", " ",
                       "r", "e", "q", "u", "e", "s", "t">>), TEXT_PLAIN, {})
        ELSE IF ~Inside(base, name)
        THEN after = before /\ resp = format_response("403 Forbidden",
                 Str(<<"A", "c", "c", "e", "s", "s", " ", "D", "e", "n", "i", "e", "d">>),
                 TEXT_PLAIN, {})
        ELSE IF key \notin DOMAIN headers \/ ~Numeral(headers[key])
        THEN after = before /\ resp = format_response("411 Length Required",
                 Str(<<"C", "o", "n", "t", "e", "n", "t", "-", "L", "e", "n", "g", "t", "h",
                       " ", "h", "e", "a", "d", "e", "r", " ", "m", "i", "s", "s", "i", "n",
                       "g", " ", "o", "r", " ", "i", "n", "v", "a", "l", "i", "d">>),
                 TEXT_PLAIN, {})
        ELSE IF ~Contains(data, <<CR, LF, CR, LF>>)
        THEN after = before /\ resp = format_response("400 Bad Request",
                 Str(<<"M", "i", "s", "s", "i", "n", "g", " ", "r", "e", "q", "u", "e", "s",
                       "t", " ", "b", "o", "d", "y">>), TEXT_PLAIN, {})
        ELSE \/ /\ resp = format_response("201 Created", Str(<<>>), TEXT_PLAIN, {})
                /\ isfile(after, PathOf(Target(base, name)))
                /\ \A q \in DOMAIN before : q # PathOf(Target(base, name)) =>
                      (q \in DOMAIN after /\ after[q] = before[q])
             \/ resp = format_response("500 Internal Server Error",
                    Str(<<"F", "i", "l", "e", " ", "w", "r", "i", "t", "e", " ", "e", "r",
                          "r", "o", "r">>), TEXT_PLAIN, {})

\* C14: the routing of a POST under /files/ ends with the response that the
\* first failing check of the write handler decides, in the order: shape of
\* the path (400 "Invalid file request"), containment (403 "Access Denied"),
\* Content-Length absent or not a non-negative integer (411), no blank line
\* in the request (400 "Missing request body"); the file is written only when
\* all four pass, with 201 and an empty body, or 500 "File write error"
C14_ValidationOrder ==
    [][\A c \in Conns :
          (/\ conn[c].pc = "dispatch"
           /\ conn'[c] # conn[c]
           /\ IsUploadRequest(conn[c].request_data)) =>
              /\ conn'[c].pc = "send"
              /\ UploadTable(conn[c].request_data, base_directory, fs, fs',
                             conn'[c].response)]_vars

\* the same, but for a Content-Length of digit characters that are not
\* decimal digits
C14_OrderButForDigitLike ==
    [][\A c \in Conns :
          (/\ conn[c].pc = "dispatch"
           /\ conn'[c] # conn[c]
           /\ IsUploadRequest(conn[c].request_data)
           /\ ~Contains(conn[c].request_data, <<SUPERSCRIPT_TWO>>)) =>
              /\ conn'[c].pc = "send"
              /\ UploadTable(conn[c].request_data, base_directory, fs, fs',
                             conn'[c].response)]_vars

\* the bytes received after the first blank line of the request
ReceivedBody(data) ==
    LET raw == encode(data)
        i == Min(Positions(raw, <<CR, LF, CR, LF>>))
    IN  SubSeq(raw, i + 4, Len(raw))

\* the lines of the request that stand before its first blank line
HeadLines(data) == split(split1(data, <<CR, LF, CR, LF>>)[1], <<CR, LF>>)

\* the Content-Length that the head of the request declares
DeclaresLength(data) ==
    /\ H_CONTENT_LENGTH \in DOMAIN HeaderDict(HeadLines(data))
    /\ Numeral(HeaderDict(HeadLines(data))[H_CONTENT_LENGTH])
DeclaredLength(data) == decimalValue(HeaderDict(HeadLines(data))[H_CONTENT_LENGTH])

\* the upload of c is routed and answered 201 in this step
Created(c) ==
    /\ conn[c].pc = "dispatch"
    /\ IsUploadRequest(conn[c].request_data)
    /\ conn'[c].pc = "send"
    /\ conn'[c].response.status_code = "201 Created"

\* the file that the upload of data names
UploadTarget(data) == PathOf(Target(base_directory, FilesName(Tokens(data)[2])))

\* C15: an upload that is answered 201 leaves in the file exactly the first
\* Content-Length bytes of what was received after the first blank line, all
\* of it when fewer bytes were received, whatever the file held before
C15_PersistsDeclaredBytes ==
    [][\A c \in Conns : Created(c) =>
          LET data == conn[c].request_data
              body == ReceivedBody(data)
          IN  /\ Contains(data, <<CR, LF, CR, LF>>)
              /\ DeclaresLength(data)
              /\ isfile(fs', UploadTarget(data))
              /\ fs'[UploadTarget(data)].data =
                    SubSeq(body, 1, Min({DeclaredLength(data), Len(body)}))]_vars

\* the same of the uploads whose text is ASCII and whose body has no line of
\* the form of a header
C15_PersistsAsciiBytes ==
    [][\A c \in Conns :
          (/\ Created(c)
           /\ encode(conn[c].request_data) = conn[c].request_data
           /\ HeaderDict(split(conn[c].request_data, <<CR, LF>>)) =
                 HeaderDict(HeadLines(conn[c].request_data))) =>
          LET data == conn[c].request_data
              body == ReceivedBody(data)
          IN  /\ DeclaresLength(data)
              /\ isfile(fs', UploadTarget(data))
              /\ fs'[UploadTarget(data)].data =
                    SubSeq(body, 1, Min({DeclaredLength(data), Len(body)}))]_vars

\* C16: parse_request raises for no text that a connection has received: it
\* returns the method, the path and the headers, or the absent method and
\* path, also for a first line of more than three tokens and for an empty one
C16_ParserNeverRaises ==
    \A c \in Conns :
        conn[c].request_data # <<>> => parse_request(conn[c].request_data).exc = "none"

\* the same of the texts whose first line has at most three tokens
C16_NoRaiseUpToThreeTokens ==
    \A c \in Conns :
        (conn[c].request_data # <<>> /\ Len(Tokens(conn[c].request_data)) <= 3) =>
            parse_request(conn[c].request_data).exc = "none"

\* the location is the base directory or under it, once links are followed
\* and "." and ".." are resolved
Canonical(p) == Resolved(follow(fs, p))
InsideBase(p) == IsPrefix(Resolved(base_directory), Canonical(p))

\* C17: no call of a file handler has opened a file whose canonical location
\* is outside the canonical base directory, and every file outside it is as
\* it was at startup
C17_NothingOpenedOutside ==
    /\ \A c \in Conns : conn[c].opened.some => InsideBase(conn[c].opened.v)
    /\ \A q \in DOMAIN fs : ~InsideBase(q) => (q \in DOMAIN LinkFs /\ fs[q] = LinkFs[q])

\* the same of the paths that are not symbolic links
C17_NothingOpenedOutsideButLinks ==
    /\ \A c \in Conns :
          (conn[c].opened.some /\ follow(fs, conn[c].opened.v) = conn[c].opened.v) =>
              InsideBase(conn[c].opened.v)
    /\ \A q \in DOMAIN fs :
          (~InsideBase(q) /\ q # <<"/", "s", "e", "c", "r", "e", "t">>) =>
              (q \in DOMAIN LinkFs /\ fs[q] = LinkFs[q])

\* C18: the headers of a parsed request are those of the lines between the
\* request line and the first blank line, the value of a name that of the
\* last such line: a line of the body adds no header and replaces none
C18_HeadersFromHeadOnly ==
    \A c \in Conns :
        (conn[c].request_data # <<>> /\ Len(Tokens(conn[c].request_data)) = 3) =>
            parse_request(conn[c].request_data).headers =
                HeaderDict(HeadLines(conn[c].request_data))

\* the same of the requests whose body has no line with ": "
C18_HeadersOfPlainBody ==
    \A c \in Conns :
        (/\ conn[c].request_data # <<>>
         /\ Len(Tokens(conn[c].request_data)) = 3
         /\ Len(split1(conn[c].request_data, <<CR, LF, CR, LF>>)) = 2
         /\ ~Contains(split1(conn[c].request_data, <<CR, LF, CR, LF>>)[2], <<":", " ">>)) =>
            parse_request(conn[c].request_data).headers =
                HeaderDict(HeadLines(conn[c].request_data))

\* C19: at most one response is written on a connection: after the response
\* of the routing was handed to the socket, no byte of another response is
\* written to it
C19_OneResponseWritten ==
    \A c \in Conns : \A i \in DOMAIN conn[c].out :
        i > 1 => conn[c].out[i].sent = "none"

\* the same of the connections whose first write succeeds
C19_OneResponseAfterFullWrite ==
    \A c \in Conns :
        (conn[c].out # <<>> /\ conn[c].out[1].sent = "all") => Len(conn[c].out) = 1

\* the complete contents that /tmp/a can have: what it held at startup and
\* the bodies of the uploads
CompleteContents == {<<"o", "l", "d">>, <<"h", "i">>, <<"h", "e", "l", "l", "o">>}

\* C20: every GET of /files/a that runs while /files/a is uploaded is answered
\* 200 with the complete previous content or a complete uploaded body, and
\* whenever no upload is between its open and its write the file holds one
\* of them
C20_CompleteContent ==
    /\ \A c \in Conns :
          (conn[c].pc = "send" /\ IsGet(c)) =>
              /\ conn[c].response.status_code = "200 OK"
              /\ conn[c].response.body \in CompleteContents
    /\ (\A c \in Conns : conn[c].pc # "write") =>
          fs[<<"/", "t", "m", "p", "/", "a">>].data \in CompleteContents

\* the statuses of the refusals: of an upload (400, 403, 411), of a path that
\* no route serves (404) and of a method that is not served (405)
RefusalStatuses ==
    {"400 Bad Request", "403 Forbidden", "411 Length Required", "404 Not Found",
     "405 Method Not Allowed"}

\* the text is a GET: a first line of three tokens, the first of them GET
GetText(data) == Len(Tokens(data)) = 3 /\ Tokens(data)[1] = <<"G", "E", "T">>

\* C21: an upload that is answered 400, 403 or 411, a request that is answered
\* 404 or 405, and every GET leave the filesystem as it was: no step of the
\* handling of such a request, the routing that formats the response
\* included, creates, truncates or modifies a file, in the base directory or
\* outside it
C21_RefusalsAndGetsWriteNothing ==
    [][\A c \in Conns :
          (/\ conn'[c] # conn[c]
           /\ conn[c].request_data # <<>>
           /\ \/ conn[c].response.status_code \in RefusalStatuses
              \/ conn'[c].response.status_code \in RefusalStatuses
              \/ GetText(conn[c].request_data)) =>
              fs' = fs]_vars

\* an upload to /files/a without a Content-Length was answered 411 in full
\* while the file held the two bytes of an earlier upload
C21_RefusedOverExistingFile ==
    \E c \in Conns :
        /\ conn[c].pc = "done"
        /\ IsUploadRequest(conn[c].request_data)
        /\ Tokens(conn[c].request_data)[2] = <<"/", "f", "i", "l", "e", "s", "/", "a">>
        /\ Len(conn[c].out) = 1
        /\ conn[c].out[1].sent = "all"
        /\ conn[c].out[1].response.status_code = "411 Length Required"
        /\ FileA \in DOMAIN fs
        /\ fs[FileA] = File(<<"h", "i">>)

====
